---- MODULE Spec2Model ----
(***************************************************************************)
(* twoBitCompress (src/src/twoBitCompressor.cpp): a DNA sequence is packed *)
(* two bits per symbol, sixteen symbols per 32-bit word, by a              *)
(* tbb::parallel_for over the word indices.  Worker threads take word      *)
(* indices from the range and run the loop body on them; the steps of the  *)
(* bodies interleave.  A uint32_t is a vector of 32 bits (bit 0 the least  *)
(* significant); a size_t is a natural number modulo 2^SizeBits.           *)
(***************************************************************************)
EXTENDS Integers, Sequences, FiniteSets, TLC

\* ---------------------------------------------------------------- bounds
\* Width of size_t in the model (the platform's is 32 or 64).
SizeBits == 6
\* Longest sequence a caller passes together with real buffers.
MaxSeqLen == 20

\* ------------------------------------------------------ program constants
SymbolsPerWord == 16
WordBits == 32
BitsPerSymbol == 2

SizeModulus == 2 ^ SizeBits
Wrap(n) == n % SizeModulus

Min(a, b) == IF a < b THEN a ELSE b

\* ------------------------------------------------------------- the inputs
Nucleotides == {"A", "C", "G", "T"}
\* Bytes a sequence may hold: the four nucleotides and two other bytes.
Bytes == Nucleotides \cup {"a", "N"}
Master == <<"G", "A", "C", "T", "N", "a">>
Strides == {0, 1}
\* The sequence of n symbols that starts at Master[o+1] and advances by s.
SeqOf(o, s, n) == [p \in 0 .. n - 1 |-> Master[((o + s * p) % Len(Master)) + 1]]

\* Words the caller allocates for a sequence of n symbols: ceil(n/16).
CeilWords(n) == (n + SymbolsPerWord - 1) \div SymbolsPerWord

Word == 0 .. WordBits - 1
Zero32 == [b \in Word |-> 0]
AllOnes == [b \in Word |-> 1]
Alternating == [b \in Word |-> b % 2]
\* What an output buffer may hold before a call.
Garbage == {AllOnes, Alternating}
BufferOf(g, n) == [w \in 0 .. CeilWords(n) - 1 |-> g]

Threads == {"t1", "t2"}

\* ------------------------------------------------------- uint32_t as bits
\* The uint32_t holding the number n (n below 2^31).
FromNat(n) == [b \in Word |-> IF b < WordBits - 1 THEN (n \div (2 ^ b)) % 2 ELSE 0]
\* v << s for s below 32: bits shifted past bit 31 are dropped.
Shl(v, s) == [b \in Word |-> IF b >= s THEN v[b - s] ELSE 0]
\* v << s: shifting a uint32_t by 32 or more is undefined; the builds either
\* give 0 or shift by s modulo 32.
ShlOutcomes(v, s) == IF s < WordBits THEN {Shl(v, s)} ELSE {Zero32, Shl(v, s % WordBits)}
BitOr(a, b) == [k \in Word |-> IF a[k] = 1 \/ b[k] = 1 THEN 1 ELSE 0]

\* --------------------------------------------------- the code's formulas
\* Mutant: the cases of C and G exchanged.
TwoBitValSwapped(c) ==
    CASE c = "A" -> 0
      [] c = "C" -> 2
      [] c = "G" -> 1
      [] c = "T" -> 3
      [] OTHER -> 0

\* Mutant: the default case gives 3.
TwoBitValDefaultT(c) ==
    CASE c = "A" -> 0
      [] c = "C" -> 1
      [] c = "G" -> 2
      [] c = "T" -> 3
      [] OTHER -> 3

\* switch(seq[j]): A, C, G, T give 0, 1, 2, 3 and every other byte gives 0.
TwoBitVal(c) ==
    CASE c = "A" -> 0
      [] c = "C" -> 1
      [] c = "G" -> 2
      [] c = "T" -> 3
      [] OTHER -> 0

\* compressedSeqLen = (seqLen+15)/16, in size_t.
NumWords(n) == Wrap(n + (SymbolsPerWord - 1)) \div SymbolsPerWord

\* start = 16*i, in size_t.
StartOf(i) == Wrap(SymbolsPerWord * i)

\* Mutant: end = start+16, without std::min.
EndOfNoMin(n, st) == Wrap(st + SymbolsPerWord)

\* end = std::min(seqLen, start+16), in size_t.
EndOf(n, st) == Min(n, Wrap(st + SymbolsPerWord))

\* The output word iteration i works on: compressedSeq[i].
WordIndex(i) == i

\* Mutant: line 32 left out.
ZeroWordSkipped(buf, w) == buf

\* Mutant: compressedSeq[0] = 0 in place of compressedSeq[i] = 0.
ZeroWordAlwaysFirst(buf, w) == IF 0 \in DOMAIN buf THEN [buf EXCEPT ![0] = Zero32] ELSE buf

\* compressedSeq[i] = 0 (a store outside the buffer is left out of the model's
\* buffer; the access is recorded).
ZeroWord(buf, w) == IF w \in DOMAIN buf THEN [buf EXCEPT ![w] = Zero32] ELSE buf

\* Mutant: = in place of |=.
AccumulateOverwrite(word, val, s) == ShlOutcomes(FromNat(val), s)

\* The values compressedSeq[i] | (twoBitVal << shift) may take.
Accumulate(word, val, s) == {BitOr(word, x) : x \in ShlOutcomes(FromNat(val), s)}

\* Mutant: shift += 1.
NextShiftByOne(s) == s + 1

\* shift += 2.
NextShift(s) == s + BitsPerSymbol

\* Mutant: a dispatched index stays in the range.
RemainingAll(range, i) == range

\* The indices left in the range once index i is dispatched.
Remaining(range, i) == range \ {i}

\* What a read of seq[p] gives: the symbol, or any byte outside the array.
ReadSeq(s, p) == IF p \in DOMAIN s THEN {s[p]} ELSE Bytes

\* What a read of compressedSeq[w] gives.
ReadWord(buf, w) == IF w \in DOMAIN buf THEN {buf[w]} ELSE {Zero32, AllOnes}

WriteWord(buf, w, val) == IF w \in DOMAIN buf THEN [buf EXCEPT ![w] = val] ELSE buf

\* ------------------------------------------------------------- the state
VARIABLES
    seq,              \* the array seq points to
    seqLen,           \* the length passed
    compressedSeq,    \* the caller's output buffer
    compressedSeqLen, \* the number of words computed at line 30
    phase,            \* "start", "running" or "returned"
    threads,          \* the worker threads of the pool
    todo,             \* indices of the range not yet dispatched
    pc,               \* per thread: "idle", "body", "loop" or "store"
    idx,              \* per thread: the index i of its iteration
    start,            \* per thread: the locals of the lambda
    end,
    j,
    twoBitVal,
    shift,
    tmp,              \* per thread: the value about to be stored by |=
    out0,             \* history: the buffer as it was when the call began
    reads,            \* history: the indices of seq read
    access,           \* history: <<thread, iteration, word>> of each access to the buffer
    nstores,          \* history: stores made to each word index
    maxShift,         \* history: the largest shift amount used
    call,             \* the number of the call
    first             \* history: the first call's sequence and result

vars == <<seq, seqLen, compressedSeq, compressedSeqLen, phase, threads, todo, pc,
          idx, start, end, j, twoBitVal, shift, tmp, out0, reads, access, nstores,
          maxShift, call, first>>

locals == <<idx, start, end, j, twoBitVal, shift, tmp>>
args == <<seq, seqLen, threads, out0, call, first>>

\* A sequence and a buffer for it are two objects of one address space.
FitsInMemory(n) == n + (WordBits \div 8) * CeilWords(n) <= SizeModulus

InitWith(ns, os, ss, gs, ts) ==
    /\ \E n \in ns, o \in os, s \in ss, g \in gs :
          /\ seqLen = n
          /\ seq = SeqOf(o, s, n)
          /\ compressedSeq = BufferOf(g, n)
          /\ out0 = BufferOf(g, n)
          /\ first = [seq |-> SeqOf(o, s, n), out |-> BufferOf(g, n)]
    /\ threads = ts
    /\ compressedSeqLen = 0
    /\ phase = "start"
    /\ todo = {}
    /\ pc = [t \in Threads |-> "idle"]
    /\ idx = [t \in Threads |-> 0]
    /\ start = [t \in Threads |-> 0]
    /\ end = [t \in Threads |-> 0]
    /\ j = [t \in Threads |-> 0]
    /\ twoBitVal = [t \in Threads |-> 0]
    /\ shift = [t \in Threads |-> 0]
    /\ tmp = [t \in Threads |-> Zero32]
    /\ reads = {}
    /\ access = {}
    /\ nstores = [w \in {} |-> 0]
    /\ maxShift = 0
    /\ call = 1

\* A caller with real buffers, any pool.
Init ==
    InitWith({n \in 0 .. MaxSeqLen : FitsInMemory(n)}, 0 .. Len(Master) - 1, Strides,
             Garbage, Threads)

\* Any length a size_t can hold, one worker thread.
InitAnyLen == InitWith(0 .. SizeModulus - 1, {0}, {1}, {AllOnes}, {"t1"})

\* ------------------------------------------------------------ the actions
\* Lines 29-31: the length in words, and the range handed to parallel_for.
Call ==
    /\ phase = "start"
    /\ compressedSeqLen' = NumWords(seqLen)
    /\ todo' = 0 .. NumWords(seqLen) - 1
    /\ nstores' = [w \in 0 .. CeilWords(seqLen) - 1 |-> 0]
    /\ phase' = "running"
    /\ UNCHANGED <<compressedSeq, pc, locals, reads, access, maxShift, args>>

\* Line 31: an idle worker is handed an index of the range.
Take(t) ==
    /\ phase = "running"
    /\ t \in threads
    /\ pc[t] = "idle"
    /\ \E i \in todo :
          /\ todo' = Remaining(todo, i)
          /\ idx' = [idx EXCEPT ![t] = i]
    /\ pc' = [pc EXCEPT ![t] = "body"]
    /\ UNCHANGED <<compressedSeq, compressedSeqLen, phase, start, end, j, twoBitVal,
                   shift, tmp, reads, access, nstores, maxShift, args>>

\* Lines 32-37: the word is zeroed in the buffer and the locals are set.
Zero(t) ==
    /\ pc[t] = "body"
    /\ LET w == WordIndex(idx[t])
           st == StartOf(idx[t])
       IN  /\ compressedSeq' = ZeroWord(compressedSeq, w)
           /\ access' = access \cup {<<t, idx[t], w>>}
           /\ nstores' = IF w \in DOMAIN nstores
                         THEN [nstores EXCEPT ![w] = @ + 1] ELSE nstores
           /\ start' = [start EXCEPT ![t] = st]
           /\ end' = [end EXCEPT ![t] = EndOf(seqLen, st)]
           /\ j' = [j EXCEPT ![t] = st]
    /\ twoBitVal' = [twoBitVal EXCEPT ![t] = 0]
    /\ shift' = [shift EXCEPT ![t] = 0]
    /\ pc' = [pc EXCEPT ![t] = "loop"]
    /\ UNCHANGED <<compressedSeqLen, phase, todo, idx, tmp, reads, maxShift, args>>

\* Lines 37-55: j < end; seq[j] is read and mapped, compressedSeq[i] is read and
\* the shifted code is OR-ed into the value read.
Load(t) ==
    /\ pc[t] = "loop"
    /\ j[t] < end[t]
    /\ LET w == WordIndex(idx[t])
       IN  /\ \E c \in ReadSeq(seq, j[t]), old \in ReadWord(compressedSeq, w) :
                 /\ twoBitVal' = [twoBitVal EXCEPT ![t] = TwoBitVal(c)]
                 /\ \E v \in Accumulate(old, TwoBitVal(c), shift[t]) :
                       tmp' = [tmp EXCEPT ![t] = v]
           /\ access' = access \cup {<<t, idx[t], w>>}
    /\ reads' = reads \cup {j[t]}
    /\ maxShift' = IF shift[t] > maxShift THEN shift[t] ELSE maxShift
    /\ pc' = [pc EXCEPT ![t] = "store"]
    /\ UNCHANGED <<compressedSeq, compressedSeqLen, phase, todo, idx, start, end, j,
                   shift, nstores, args>>

\* Lines 55-56 and j++: the value is stored to compressedSeq[i], shift += 2.
Store(t) ==
    /\ pc[t] = "store"
    /\ LET w == WordIndex(idx[t])
       IN  /\ compressedSeq' = WriteWord(compressedSeq, w, tmp[t])
           /\ access' = access \cup {<<t, idx[t], w>>}
           /\ nstores' = IF w \in DOMAIN nstores
                         THEN [nstores EXCEPT ![w] = @ + 1] ELSE nstores
    /\ shift' = [shift EXCEPT ![t] = NextShift(shift[t])]
    /\ j' = [j EXCEPT ![t] = Wrap(j[t] + 1)]
    /\ tmp' = [tmp EXCEPT ![t] = Zero32]
    /\ pc' = [pc EXCEPT ![t] = "loop"]
    /\ UNCHANGED <<compressedSeqLen, phase, todo, idx, start, end, twoBitVal, reads,
                   maxShift, args>>

\* Line 37 with j >= end, line 58: the iteration ends and the worker is idle.
Exit(t) ==
    /\ pc[t] = "loop"
    /\ ~(j[t] < end[t])
    /\ pc' = [pc EXCEPT ![t] = "idle"]
    /\ idx' = [idx EXCEPT ![t] = 0]
    /\ start' = [start EXCEPT ![t] = 0]
    /\ end' = [end EXCEPT ![t] = 0]
    /\ j' = [j EXCEPT ![t] = 0]
    /\ twoBitVal' = [twoBitVal EXCEPT ![t] = 0]
    /\ shift' = [shift EXCEPT ![t] = 0]
    /\ UNCHANGED <<compressedSeq, compressedSeqLen, phase, todo, tmp, reads, access,
                   nstores, maxShift, args>>

\* Lines 58-59: parallel_for returns when every index has been run.
Return ==
    /\ phase = "running"
    /\ todo = {}
    /\ \A t \in Threads : pc[t] = "idle"
    /\ phase' = "returned"
    /\ UNCHANGED <<compressedSeq, compressedSeqLen, todo, pc, locals, reads, access,
                   nstores, maxShift, args>>

Next ==
    \/ Call
    \/ \E t \in Threads : Take(t)
    \/ \E t \in Threads : Zero(t)
    \/ \E t \in Threads : Load(t)
    \/ \E t \in Threads : Store(t)
    \/ \E t \in Threads : Exit(t)
    \/ Return

Spec == Init /\ [][Next]_vars

SpecAnyLen == InitAnyLen /\ [][Next]_vars

\* ------------------------------------------------------------ a second call
\* The sequences a caller may pass next: the same one, or the same with one
\* byte outside {A,C,G,T} replaced by 'A'.
Variants(s) ==
    {s} \cup {[s EXCEPT ![p] = "A"] : p \in {q \in DOMAIN s : s[q] \notin Nucleotides}}

\* The caller keeps the first result and calls again with a buffer holding
\* other contents.
CallAgain ==
    /\ phase = "returned"
    /\ call = 1
    /\ first' = [seq |-> seq, out |-> compressedSeq]
    /\ \E s2 \in Variants(seq) : seq' = s2
    /\ \E g \in Garbage :
          /\ seqLen = 0 \/ BufferOf(g, seqLen) # out0
          /\ compressedSeq' = BufferOf(g, seqLen)
          /\ out0' = BufferOf(g, seqLen)
    /\ call' = 2
    /\ phase' = "start"
    /\ compressedSeqLen' = 0
    /\ reads' = {}
    /\ access' = {}
    /\ nstores' = [w \in {} |-> 0]
    /\ maxShift' = 0
    /\ UNCHANGED <<seqLen, threads, todo, pc, locals>>

NextTwice ==
    \/ Next
    \/ CallAgain

SpecTwice == Init /\ [][NextTwice]_vars

\* ------------------------------------------------- the loop run in order
\* The inner loop of iteration i from position p to e, on buffer buf.
RECURSIVE RunWord(_, _, _, _, _)
RunWord(buf, i, p, e, s) ==
    IF p < e
    THEN LET w == WordIndex(i)
             c == CHOOSE x \in ReadSeq(seq, p) : TRUE
             old == CHOOSE x \in ReadWord(buf, w) : TRUE
             v == CHOOSE x \in Accumulate(old, TwoBitVal(c), s) : TRUE
         IN  RunWord(WriteWord(buf, w, v), i, Wrap(p + 1), e, NextShift(s))
    ELSE buf

\* One iteration of the outer loop.
RunBody(buf, i) ==
    RunWord(ZeroWord(buf, WordIndex(i)), i, StartOf(i), EndOf(seqLen, StartOf(i)), 0)

\* Iterations i, i+1, ..., n-1 one after the other.
RECURSIVE RunInOrder(_, _, _)
RunInOrder(buf, i, n) == IF i < n THEN RunInOrder(RunBody(buf, i), i + 1, n) ELSE buf

\* The buffer a single thread taking the indices in increasing order leaves.
SequentialResult == RunInOrder(out0, 0, NumWords(seqLen))

\* ------------------------------------------------------ the stated layout
\* The mapping table of the specification.
SpecCode(c) == IF c = "C" THEN 1 ELSE IF c = "G" THEN 2 ELSE IF c = "T" THEN 3 ELSE 0

\* Symbols of the sequence that fall in word w.
SymbolsIn(w) ==
    Min(SymbolsPerWord, IF seqLen > SymbolsPerWord * w THEN seqLen - SymbolsPerWord * w ELSE 0)

\* Word w with its first k symbols packed and every other bit 0.
PackPrefix(w, k) ==
    [b \in Word |->
        IF b \div BitsPerSymbol < k
        THEN (SpecCode(seq[SymbolsPerWord * w + b \div BitsPerSymbol])
                 \div (2 ^ (b % BitsPerSymbol))) % 2
        ELSE 0]

FinalWord(w) == PackPrefix(w, SymbolsIn(w))

Gact == [p \in 0 .. 3 |-> <<"G", "A", "C", "T">>[p + 1]]

Returned == phase = "returned"

\* ------------------------------------------------------------ the claims

\* C1: after the call returns, for every word i below ceil(seqLen/16) and every
\* k below 16 with 16*i+k < seqLen, bits 2k and 2k+1 of compressedSeq[i] are
\* the 2-bit code of seq[16*i+k] (A=00, C=01, G=10, T=11).
C1_WordLayout ==
    Returned =>
        \A i \in 0 .. CeilWords(seqLen) - 1 : \A k \in 0 .. SymbolsPerWord - 1 :
            SymbolsPerWord * i + k < seqLen =>
                /\ compressedSeq[i][2 * k] = SpecCode(seq[SymbolsPerWord * i + k]) % 2
                /\ compressedSeq[i][2 * k + 1] = SpecCode(seq[SymbolsPerWord * i + k]) \div 2

C1_Witness ==
    /\ Returned
    /\ seqLen >= 19
    /\ seq[17] = "T" /\ compressedSeq[1][2] = 1 /\ compressedSeq[1][3] = 1
    /\ seq[18] = "N" /\ compressedSeq[1][4] = 0 /\ compressedSeq[1][5] = 0
    /\ seq[14] = "G" /\ compressedSeq[0][28] = 0 /\ compressedSeq[0][29] = 1
    /\ seq[16] = "C" /\ compressedSeq[1][0] = 1 /\ compressedSeq[1][1] = 0

\* C2: the sequence GACT of length 4 yields exactly one word, of value 210.
C2_Gact ==
    (Returned /\ seqLen = 4 /\ seq = Gact) =>
        /\ compressedSeqLen = 1
        /\ DOMAIN compressedSeq = {0}
        /\ {a[3] : a \in access} = {0}
        /\ compressedSeq[0] = FromNat(210)

C2_Witness == Returned /\ seqLen = 4 /\ seq = Gact /\ out0[0] = AllOnes

\* C3: when seqLen % 16 # 0, after the call returns every bit of the last word
\* at a position >= 2*(seqLen % 16) is 0, whatever the buffer held before.
C3_TailPadding ==
    (Returned /\ seqLen % SymbolsPerWord # 0) =>
        \A b \in Word :
            b >= BitsPerSymbol * (seqLen % SymbolsPerWord) =>
                compressedSeq[CeilWords(seqLen) - 1][b] = 0

C3_Witness ==
    /\ Returned
    /\ seqLen = SymbolsPerWord + 3
    /\ out0[1] = AllOnes
    /\ compressedSeq[1][5] = 1
    /\ compressedSeq[1][6] = 0

\* C4: a sequence with a byte outside {A,C,G,T} at position p gives the same
\* output as the sequence with 'A' at p, bit for bit.
C4_DegenerateAsA ==
    (Returned /\ call = 2) =>
        \A p \in DOMAIN seq :
            (first.seq[p] \notin Nucleotides /\ seq = [first.seq EXCEPT ![p] = "A"]) =>
                compressedSeq = first.out

C4_Witness ==
    /\ Returned /\ call = 2
    /\ seqLen >= 18
    /\ first.seq[17] = "a" /\ seq = [first.seq EXCEPT ![17] = "A"]
    /\ first.seq[15] = "T"
    /\ compressedSeq[0][30] = 1 /\ compressedSeq[1][2] = 0 /\ compressedSeq[1][3] = 0

\* C5: every assignment of indices to threads and every interleaving ends with
\* the buffer that running the iterations in order leaves; for seqLen = 0 there
\* are no words and nothing is written.
C5_ScheduleIndependent ==
    Returned =>
        /\ compressedSeq = SequentialResult
        /\ seqLen = 0 => (compressedSeqLen = 0 /\ access = {} /\ compressedSeq = out0)

C5_Witness ==
    /\ Returned
    /\ <<"t2", 0, 0>> \in access
    /\ <<"t1", 1, 1>> \in access
    /\ compressedSeq[0] # compressedSeq[1]

\* C6: for every seqLen a size_t holds, the number of words computed and
\* populated is ceil(seqLen/16).
C6_LengthInvariant ==
    /\ phase # "start" => compressedSeqLen = CeilWords(seqLen)
    /\ Returned => \A w \in 0 .. CeilWords(seqLen) - 1 : nstores[w] >= 1

\* C7: no two different iterations (or threads) access the same output word,
\* and at return every word below the computed length was written by one.
C7_DisjointAccess ==
    /\ \A a \in access : \A b \in access : a[3] = b[3] => (a[1] = b[1] /\ a[2] = b[2])
    /\ Returned =>
          \A w \in 0 .. compressedSeqLen - 1 :
              /\ Cardinality({a \in access : a[3] = w}) = 1
              /\ nstores[w] >= 1

C7_Witness ==
    /\ Returned
    /\ compressedSeqLen = 2
    /\ \E a \in access : \E b \in access : a[1] # b[1] /\ a[3] # b[3]

\* C8: every read of seq is at an index below seqLen, every access to the
\* buffer is at an index below ceil(seqLen/16), and no shift exceeds 30.
C8_BoundsSafe ==
    /\ reads \subseteq 0 .. seqLen - 1
    /\ \A a \in access : a[3] \in 0 .. CeilWords(seqLen) - 1
    /\ maxShift <= WordBits - BitsPerSymbol

C8_Witness ==
    /\ Returned
    /\ seqLen = SizeModulus - SymbolsPerWord
    /\ reads = 0 .. seqLen - 1
    /\ maxShift = WordBits - BitsPerSymbol

\* C9: the same sequence encoded into two buffers that held different contents
\* gives the same words.
C9_RepeatIdentical ==
    (Returned /\ call = 2 /\ seq = first.seq) => compressedSeq = first.out

C9_Witness ==
    /\ Returned /\ call = 2 /\ seq = first.seq
    /\ seqLen = SymbolsPerWord + 1
    /\ out0[1] = Alternating

\* C10 as stated: each word index is stored exactly once, with its final value.
C10_StoredOnce ==
    \A w \in DOMAIN nstores :
        /\ nstores[w] <= 1
        /\ compressedSeq[w] = out0[w] \/ compressedSeq[w] = FinalWord(w)

\* C10 amended: word w is stored 1 + (symbols in w) times, first with 0 and then
\* once per symbol, so after m stores it holds its first m-1 symbols packed; at
\* return it holds its final value.
C10_StoredPerSymbol ==
    \A w \in DOMAIN nstores :
        /\ nstores[w] = 0 => compressedSeq[w] = out0[w]
        /\ nstores[w] >= 1 =>
              /\ nstores[w] <= 1 + SymbolsIn(w)
              /\ compressedSeq[w] = PackPrefix(w, nstores[w] - 1)
        /\ Returned => (nstores[w] = 1 + SymbolsIn(w) /\ compressedSeq[w] = FinalWord(w))

C10_Witness ==
    \E w \in DOMAIN nstores :
        /\ nstores[w] = 3
        /\ SymbolsIn(w) = SymbolsPerWord
        /\ compressedSeq[w] # FinalWord(w)
        /\ compressedSeq[w] # out0[w]
        /\ compressedSeq[w] # Zero32

====
